---------------------------- MODULE Spec2Model ----------------------------
(***************************************************************************)
(* Model of the casino-backend signing oracle: the offset store            *)
(* (ReadOffset / WriteOffset), the per-event processor (processEvent),     *)
(* the event loop (RunEventProcessor) and the lifecycle coordinator (Run). *)
(*                                                                         *)
(* A uint64 is kept at its full width as four 16-bit limbs, most           *)
(* significant first, so that wrap-around at 2^64 and the sign bit of the  *)
(* int conversion are the real ones.  A byte string is a sequence with one *)
(* element for each byte: an ASCII byte is its character ("NUL" and "VT"   *)
(* name the bytes 0 and 11), a byte of 0x80 and above its two hexadecimal  *)
(* digits.                                                                 *)
(***************************************************************************)
EXTENDS Integers, Sequences, FiniteSets, TLC

(***************************************************************************)
(* Bounds of the model.                                                    *)
(***************************************************************************)
\* What the broker sends in all: a batch counts one, and two more for each
\* of its events.
MaxTraffic == 6
RunTraffic == 3
\* Batches that can wait in EventMessages.
MaxQueue == 1
\* HTTP requests routed to the handlers.
MaxRequests == 3

(***************************************************************************)
(* uint64 arithmetic on limbs.                                             *)
(***************************************************************************)
Limb == 256 * 256

\* The uint64 values, as four limbs, most significant first.
U64 == (0..(Limb - 1)) \X (0..(Limb - 1)) \X (0..(Limb - 1)) \X (0..(Limb - 1))

U64Zero == <<0, 0, 0, 0>>

\* The uint64 with the small value n (n < 2^16).
U64Of(n) == <<0, 0, 0, n>>

IsZero(v) == v = U64Zero

\* v + 1 in uint64 arithmetic: wraps to 0 at 2^64.
Inc(v) ==
  IF v[4] + 1 < Limb THEN <<v[1], v[2], v[3], v[4] + 1>>
  ELSE IF v[3] + 1 < Limb THEN <<v[1], v[2], v[3] + 1, 0>>
  ELSE IF v[2] + 1 < Limb THEN <<v[1], v[2] + 1, 0, 0>>
  ELSE IF v[1] + 1 < Limb THEN <<v[1] + 1, 0, 0, 0>>
  ELSE U64Zero

\* a < b on uint64 values.
U64Less(a, b) ==
  \E i \in 1..4 : a[i] < b[i] /\ \A j \in 1..(i - 1) : a[j] = b[j]

U64Leq(a, b) == a = b \/ U64Less(a, b)

\* v mod 10: the remainder of the long division over the limbs.
Mod10(v) == ((((((v[1] % 10) * Limb + v[2]) % 10) * Limb + v[3]) % 10) * Limb + v[4]) % 10

\* v div 10: the quotient of the long division over the limbs.
Div10(v) ==
  <<v[1] \div 10,
    ((v[1] % 10) * Limb + v[2]) \div 10,
    ((((v[1] % 10) * Limb + v[2]) % 10) * Limb + v[3]) \div 10,
    ((((((v[1] % 10) * Limb + v[2]) % 10) * Limb + v[3]) % 10) * Limb + v[4]) \div 10>>

\* The carry out of the top limb of v * base + d (non-zero on overflow).
Carry(v, base, d) ==
  (v[1] * base + ((v[2] * base + ((v[3] * base + ((v[4] * base + d) \div Limb)) \div Limb))
     \div Limb)) \div Limb

\* v * base + d in uint64 arithmetic.
MulAdd(v, base, d) ==
  <<(v[1] * base + ((v[2] * base + ((v[3] * base + ((v[4] * base + d) \div Limb)) \div Limb))
       \div Limb)) % Limb,
    (v[2] * base + ((v[3] * base + ((v[4] * base + d) \div Limb)) \div Limb)) % Limb,
    (v[3] * base + ((v[4] * base + d) \div Limb)) % Limb,
    (v[4] * base + d) % Limb>>

DigitChars == <<"0", "1", "2", "3", "4", "5", "6", "7", "8", "9">>

\* The digits of the bases up to 16, in the order of their values.
HexChars == DigitChars \o <<"a", "b", "c", "d", "e", "f">>

UpperChars == <<"A", "B", "C", "D", "E", "F", "O", "X">>

LowerChars == <<"a", "b", "c", "d", "e", "f", "o", "x">>

\* The lower-case form of a letter of a number, any other character as it is.
Lower(c) ==
  IF \E k \in 1..8 : UpperChars[k] = c
  THEN LowerChars[CHOOSE k \in 1..8 : UpperChars[k] = c]
  ELSE c

IsDigit(c) == \E d \in 1..10 : DigitChars[d] = c

IsHexDigit(c) == \E d \in 1..16 : HexChars[d] = Lower(c)

DigitVal(c) == (CHOOSE d \in 1..16 : HexChars[d] = Lower(c)) - 1

\* The ASCII characters fmt takes for white space: space and the control
\* characters \t \n \v ("VT") \f \r.
IsSpace(c) == c \in {" ", "\n", "\t", "\r", "VT", "\f"}

\* A byte of 0x80 and above is named by its two hexadecimal digits.
HexNames == <<"0", "1", "2", "3", "4", "5", "6", "7", "8", "9", "A", "B", "C", "D", "E", "F">>

ByteName(n) == HexNames[(n \div 16) + 1] \o HexNames[(n % 16) + 1]

Bytes(lo, hi) == {ByteName(n) : n \in lo..hi}

\* The UTF-8 encodings of the other characters fmt takes for white space:
\* U+0085, U+00A0, U+1680, U+2000 to U+200A, U+2028, U+2029, U+202F, U+205F
\* and U+3000.
SpaceRunes ==
  {<<"C2", "85">>, <<"C2", "A0">>, <<"E1", "9A", "80">>, <<"E2", "80", "A8">>,
   <<"E2", "80", "A9">>, <<"E2", "80", "AF">>, <<"E2", "81", "9F">>, <<"E3", "80", "80">>}
    \cup {<<"E2", "80", c>> : c \in Bytes(128, 138)}

\* The length of the UTF-8 encoding that the byte c begins (1 for an ASCII
\* byte and for a byte that begins none).
RuneNeed(c) ==
  IF c \in Bytes(194, 223) THEN 2
  ELSE IF c \in Bytes(224, 239) THEN 3
  ELSE IF c \in Bytes(240, 244) THEN 4
  ELSE 1

\* The second bytes utf8 accepts after the first byte c.
SecondBytes(c) ==
  IF c = "E0" THEN Bytes(160, 191)
  ELSE IF c = "ED" THEN Bytes(128, 159)
  ELSE IF c = "F0" THEN Bytes(144, 191)
  ELSE IF c = "F4" THEN Bytes(128, 143)
  ELSE Bytes(128, 191)

\* The number of bytes the scanner's ReadRune takes from the file for the
\* character at index i: it reads byte by byte until utf8.FullRune holds or
\* the file ends.
ReadLen(bytes, i) ==
  LET need == RuneNeed(bytes[i])
      avail == Len(bytes) - i + 1
  IN  IF need = 1 \/ avail = 1 THEN 1
      ELSE IF need = 2 \/ bytes[i + 1] \notin SecondBytes(bytes[i]) \/ avail = 2 THEN 2
      ELSE IF need = 3 \/ bytes[i + 2] \notin Bytes(128, 191) \/ avail = 3 THEN 3
      ELSE 4

(***************************************************************************)
(* int(offset): the conversion of a uint64 to the 64-bit signed int keeps  *)
(* the bit pattern; values of 2^63 and above become negative.  The result  *)
(* is a sign and a magnitude (the two's complement of the bits).           *)
(***************************************************************************)
IntOf(v) ==
  IF v[1] >= Limb \div 2
  THEN [neg |-> TRUE,
        mag |-> Inc(<<Limb - 1 - v[1], Limb - 1 - v[2], Limb - 1 - v[3], Limb - 1 - v[4]>>)]
  ELSE [neg |-> FALSE, mag |-> v]

\* The decimal digits of a uint64, most significant first ("" for zero).
Digits[v \in U64] ==
  IF IsZero(v) THEN <<>> ELSE Append(Digits[Div10(v)], DigitChars[Mod10(v) + 1])

FormatUint(v) == IF IsZero(v) THEN <<"0">> ELSE Digits[v]

\* strconv.Itoa of a signed int.
Itoa(i) == IF i.neg THEN <<"-">> \o FormatUint(i.mag) ELSE FormatUint(i.mag)

\* The base strconv.ParseUint(s, 0, 64) reads s in, and the number of
\* characters of s that are the prefix of that base.
BaseOf(tok) ==
  IF tok = <<>> \/ tok[1] # "0" THEN [base |-> 10, skip |-> 0]
  ELSE IF Len(tok) >= 3 /\ Lower(tok[2]) = "b" THEN [base |-> 2, skip |-> 2]
  ELSE IF Len(tok) >= 3 /\ Lower(tok[2]) = "o" THEN [base |-> 8, skip |-> 2]
  ELSE IF Len(tok) >= 3 /\ Lower(tok[2]) = "x" THEN [base |-> 16, skip |-> 2]
  ELSE [base |-> 8, skip |-> 1]

\* strconv's underscoreOK: an underscore only separates digits, the base
\* prefix counting as a digit.  last is "0" after a digit or the prefix, "_"
\* after an underscore, "!" after anything else and "^" at the start.
RECURSIVE UnderscoreFrom(_, _, _)
UnderscoreFrom(tok, last, hex) ==
  IF tok = <<>> THEN last # "_"
  ELSE IF IsDigit(Head(tok)) \/ (hex /\ IsHexDigit(Head(tok)))
  THEN UnderscoreFrom(Tail(tok), "0", hex)
  ELSE IF Head(tok) = "_"
  THEN last = "0" /\ UnderscoreFrom(Tail(tok), "_", hex)
  ELSE last # "_" /\ UnderscoreFrom(Tail(tok), "!", hex)

UnderscoreOK(tok) ==
  LET sign == IF tok # <<>> /\ tok[1] \in {"-", "+"} THEN 1 ELSE 0
      s == SubSeq(tok, sign + 1, Len(tok))
      prefix == Len(s) >= 2 /\ s[1] = "0" /\ Lower(s[2]) \in {"b", "o", "x"}
  IN  IF prefix
      THEN UnderscoreFrom(SubSeq(s, 3, Len(s)), "0", Lower(s[2]) = "x")
      ELSE UnderscoreFrom(s, "^", FALSE)

\* The characters of tok taken in, one after the other, on top of acc: an
\* underscore is passed over, a character that is no digit of the base is a
\* syntax error, a value past 2^64 - 1 a range error.  The first error stops
\* the conversion.
RECURSIVE ParseFrom(_, _, _)
ParseFrom(tok, base, acc) ==
  IF tok = <<>> \/ acc.err # "nil" THEN acc
  ELSE IF Head(tok) = "_" THEN ParseFrom(Tail(tok), base, [acc EXCEPT !.us = TRUE])
  ELSE IF ~IsHexDigit(Head(tok)) \/ DigitVal(Head(tok)) >= base
  THEN [acc EXCEPT !.v = U64Zero, !.err = "invalid syntax"]
  ELSE IF Carry(acc.v, base, DigitVal(Head(tok))) # 0
  THEN [acc EXCEPT !.v = <<Limb - 1, Limb - 1, Limb - 1, Limb - 1>>,
                   !.err = "value out of range"]
  ELSE ParseFrom(Tail(tok), base, [acc EXCEPT !.v = MulAdd(acc.v, base, DigitVal(Head(tok)))])

\* strconv.ParseUint(tok, 0, 64): the value and the error ("nil" for none).
ParseUint(tok) ==
  LET b == BaseOf(tok)
      p == ParseFrom(SubSeq(tok, b.skip + 1, Len(tok)), b.base,
                     [v |-> U64Zero, err |-> "nil", us |-> FALSE])
  IN  IF tok = <<>> THEN [v |-> U64Zero, err |-> "invalid syntax"]
      ELSE IF p.err # "nil" THEN [v |-> p.v, err |-> p.err]
      ELSE IF p.us /\ ~UnderscoreOK(tok) THEN [v |-> U64Zero, err |-> "invalid syntax"]
      ELSE [v |-> p.v, err |-> "nil"]

(***************************************************************************)
(* FileStorage: a file handle, its bytes and its read/write position.      *)
(***************************************************************************)
NewStore(bytes) == [content |-> bytes, pos |-> 0]

\* Truncate(0): drops the bytes, leaves the position where it was.
Truncate(st) == [st EXCEPT !.content = <<>>]

\* Seek(0, 0).
Seek(st) == [st EXCEPT !.pos = 0]

\* Write(bs) at the position: the bytes before the position stay, a gap
\* between the end of the file and the position reads as NUL, the bytes
\* after the written ones stay.  A Write of no bytes leaves the file as it
\* is.
Write(st, bs) ==
  LET have == Len(st.content)
      keep == SubSeq(st.content, 1, IF st.pos < have THEN st.pos ELSE have)
      gap == [i \in 1..(st.pos - have) |-> "NUL"]
      tail == IF st.pos + Len(bs) < have
              THEN SubSeq(st.content, st.pos + Len(bs) + 1, have)
              ELSE <<>>
  IN  IF bs = <<>> THEN st
      ELSE [content |-> keep \o gap \o bs \o tail, pos |-> st.pos + Len(bs)]

\* The length of the white-space character at index i, 0 when there is none.
SpaceLen(bytes, i) ==
  IF i > Len(bytes) THEN 0
  ELSE IF IsSpace(bytes[i]) THEN 1
  ELSE IF \E r \in SpaceRunes : i + Len(r) - 1 <= Len(bytes) /\ SubSeq(bytes, i, i + Len(r) - 1) = r
  THEN RuneNeed(bytes[i])
  ELSE 0

\* fmt's SkipSpace: index of the first byte at or after i that does not
\* begin a white-space character.
RECURSIVE SkipSpace(_, _)
SkipSpace(bytes, i) ==
  IF SpaceLen(bytes, i) > 0 THEN SkipSpace(bytes, i + SpaceLen(bytes, i)) ELSE i

\* fmt's scanBasePrefix at index s: without a leading "0" the digits are the
\* decimal ones and none is taken yet; after a leading "0" the letters b, o
\* and x choose the binary, octal and hexadecimal digits, anything else the
\* octal ones.  from is the index after the prefix.
scanBasePrefix(bytes, s) ==
  IF bytes[s] # "0" THEN [base |-> 10, from |-> s, haveDigits |-> FALSE]
  ELSE IF s + 1 <= Len(bytes) /\ Lower(bytes[s + 1]) = "b"
  THEN [base |-> 2, from |-> s + 2, haveDigits |-> TRUE]
  ELSE IF s + 1 <= Len(bytes) /\ Lower(bytes[s + 1]) = "o"
  THEN [base |-> 8, from |-> s + 2, haveDigits |-> TRUE]
  ELSE IF s + 1 <= Len(bytes) /\ Lower(bytes[s + 1]) = "x"
  THEN [base |-> 16, from |-> s + 2, haveDigits |-> TRUE]
  ELSE [base |-> 8, from |-> s + 1, haveDigits |-> TRUE]

\* A character fmt accepts in a number of the base: a digit of the base or
\* an underscore.
Accepts(base, c) == c = "_" \/ (IsHexDigit(c) /\ DigitVal(c) < base)

\* fmt's scanNumber: index just past the run of accepted characters that
\* starts at i.
RECURSIVE DigitsEnd(_, _, _)
DigitsEnd(bytes, i, base) ==
  IF i <= Len(bytes) /\ Accepts(base, bytes[i]) THEN DigitsEnd(bytes, i + 1, base) ELSE i

(***************************************************************************)
(* ReadOffset: fmt.Fscan into a uint64, reading from the handle's position.*)
(* White space is skipped, the base prefix and the run of digits and       *)
(* underscores are taken, and the token is converted by ParseUint; no sign *)
(* is accepted.  The scanner reads the file byte by byte, so the position  *)
(* ends after the last byte it looked at: the whole of the character that  *)
(* follows the token, when there is one.  On an error the offset is left   *)
(* 0.                                                                      *)
(***************************************************************************)
ReadOffset(st) ==
  LET b == st.content
      s == SkipSpace(b, st.pos + 1)
      pre == scanBasePrefix(b, s)
      e == DigitsEnd(b, pre.from, pre.base)
      after == IF e <= Len(b) THEN e - 1 + ReadLen(b, e) ELSE Len(b)
      p == ParseUint(SubSeq(b, s, e - 1))
  IN  IF s > Len(b)
      THEN [offset |-> U64Zero, err |-> "EOF",
            store |-> [st EXCEPT !.pos = IF st.pos > Len(b) THEN st.pos ELSE Len(b)]]
      ELSE IF ~pre.haveDigits /\ e = s
      THEN [offset |-> U64Zero, err |-> "expected integer",
            store |-> [st EXCEPT !.pos = s - 1 + ReadLen(b, s)]]
      ELSE IF p.err # "nil"
      THEN [offset |-> U64Zero, err |-> p.err, store |-> [st EXCEPT !.pos = after]]
      ELSE [offset |-> p.v, err |-> "nil", store |-> [st EXCEPT !.pos = after]]

(***************************************************************************)
(* WriteOffset: format int(offset), then Truncate(0), Seek(0,0), Write.    *)
(* fail names the storage call that returns an error ("none" when all      *)
(* succeed); a failing Write has stored the first n bytes.                 *)
(***************************************************************************)
WriteFails == {"none", "truncate", "seek", "write"}

WriteOffset(st, offset, fail, n) ==
  LET bs == Itoa(IntOf(offset))
  IN  IF fail = "truncate" THEN [store |-> st, err |-> "truncate"]
      ELSE IF fail = "seek" THEN [store |-> Truncate(st), err |-> "seek"]
      ELSE IF fail = "write"
      THEN [store |-> Write(Seek(Truncate(st)), SubSeq(bs, 1, n)), err |-> "write"]
      ELSE [store |-> Write(Seek(Truncate(st)), bs), err |-> "nil"]

\* The byte counts a failing Write of bs can have stored.
PartialWrites(bs) == 0..(Len(bs) - 1)

(***************************************************************************)
(* writeOffset(app.OffsetHandler, offset), the call of RunEventProcessor.  *)
(* The function is not part of the sources at hand; the event loop         *)
(* persists the offset through the offset store, so the call is taken to   *)
(* do what WriteOffset does on the handler: Truncate(0), Seek(0, 0) and    *)
(* Write of the formatted int(offset), three storage calls with the rest   *)
(* of the program running in between.  at names the storage call to make,  *)
(* fail tells whether it returns an error, n is the number of bytes a      *)
(* failing Write has stored; the result names the call that follows, or    *)
(* "return" with the error of writeOffset.                                 *)
(***************************************************************************)
writeOffset(st, offset, at, fail, n) ==
  LET bs == Itoa(IntOf(offset))
  IN  IF at = "truncate"
      THEN IF fail THEN [store |-> st, err |-> "truncate", at |-> "return"]
           ELSE [store |-> Truncate(st), err |-> "nil", at |-> "seek"]
      ELSE IF at = "seek"
      THEN IF fail THEN [store |-> st, err |-> "seek", at |-> "return"]
           ELSE [store |-> Seek(st), err |-> "nil", at |-> "write"]
      ELSE IF fail THEN [store |-> Write(st, SubSeq(bs, 1, n)), err |-> "write", at |-> "return"]
           ELSE [store |-> Write(st, bs), err |-> "nil", at |-> "return"]

(***************************************************************************)
(* State.                                                                  *)
(***************************************************************************)
VARIABLES
  cancelled,  \* the shared context of Run is cancelled
  blocking,   \* the broker's ListenAndServe blocks until the context ends
  http,       \* the HTTP goroutine of Run: "serving", "panicking" or "panicked"
  broker,     \* the broker task of Run: [pc, err]
  sig,        \* the signal watcher of Run: "wait" or "done"
  run,        \* Run itself: [pc, err]
  loop,       \* RunEventProcessor: its position and the locals of the iteration
  chan,       \* EventMessages: the batches waiting in the channel
  closed,     \* EventMessages has been closed
  left,       \* the traffic the broker may still send
  gor,        \* the processEvent goroutines launched so far
  store,      \* the offset store (app.OffsetHandler)
  io,         \* a caller of WriteOffset and ReadOffset: [pc, v, werr, offset, err]
  reqs        \* the HTTP requests routed so far, each with its handler's effects

vars == <<cancelled, blocking, http, broker, sig, run, loop, chan, closed, left, gor,
          store, io, reqs>>

\* The tasks of Run other than the event loop.
tasks == <<blocking, http, broker, sig, run>>

TwoTo63 == <<Limb \div 2, 0, 0, 0>>
MaxU64 == <<Limb - 1, Limb - 1, Limb - 1, Limb - 1>>

\* Offsets the broker stamps on a batch: 5, 41 and 2^64 - 1.
BatchOffsets == {U64Of(5), U64Of(41), MaxU64}

\* Event payloads: one that holds a digest, one that does not parse.
Payloads == {"ok", "bad"}

NoBatch == [offset |-> U64Zero, events |-> <<>>]

\* Bytes of the offset file when the process starts.
InitialContent == <<"0">>

\* The loop, not yet at its select for the first time.
NewLoop ==
  [pc |-> "none", wake |-> "none", got |-> NoBatch, case |-> "none", nb |-> 0,
   cur |-> NoBatch, i |-> 1, w |-> 0, offset |-> U64Zero, err |-> "nil",
   at |-> "truncate", held |-> <<>>]

NoIO == [pc |-> "none", v |-> U64Zero, werr |-> "nil", offset |-> U64Zero, err |-> "nil"]

\* Run has just been called.
InitRun ==
  /\ cancelled = FALSE
  /\ blocking \in BOOLEAN
  /\ http = "serving"
  /\ broker = [pc |-> "listen", err |-> "nil"]
  /\ sig = "wait"
  /\ run = [pc |-> "wait", err |-> "nil"]
  /\ loop = NewLoop
  /\ chan = <<>>
  /\ closed = FALSE
  /\ left = RunTraffic
  /\ gor = <<>>
  /\ store = NewStore(InitialContent)
  /\ io = NoIO
  /\ reqs = <<>>

\* Run has listened and subscribed, and calls RunEventProcessor(ctx).
Init ==
  /\ cancelled = FALSE
  /\ blocking = FALSE
  /\ http = "serving"
  /\ broker = [pc |-> "loop", err |-> "nil"]
  /\ sig = "wait"
  /\ run = [pc |-> "wait", err |-> "nil"]
  /\ loop = [NewLoop EXCEPT !.pc = "idle"]
  /\ chan = <<>>
  /\ closed = FALSE
  /\ left = MaxTraffic
  /\ gor = <<>>
  /\ store = NewStore(InitialContent)
  /\ io = NoIO
  /\ reqs = <<>>

\* The process is running.
Alive == http # "panicked"

(***************************************************************************)
(* A goroutine parked in the select of RunEventProcessor is woken by the   *)
(* first of: the context ending, a batch sent, the channel closed.  A      *)
(* sender hands its batch to the parked receiver, which fixes the receive  *)
(* case.  The close of ctx.Done() or of EventMessages only wakes the       *)
(* goroutine: when it runs again the select chooses among the cases that   *)
(* are ready by then.                                                      *)
(***************************************************************************)
Parked == loop.pc = "blocked" /\ loop.wake = "none"

\* The close of ctx.Done() wakes the parked goroutine.
WakeOnCancel == IF Parked THEN [loop EXCEPT !.wake = "done"] ELSE loop

(***************************************************************************)
(* processEvent: parse, sign, chain-state fetch, build, push.  Each step   *)
(* either succeeds and moves on, or logs and returns nil.                  *)
(***************************************************************************)
Steps == <<"parse", "sign", "fetch", "build", "push">>

StepNo(s) == CHOOSE k \in 1..5 : Steps[k] = s

\* The goroutine of event i of the b-th batch, which carries n events.
NewGoroutine(b, n, i, data) ==
  [b |-> b, n |-> n, i |-> i, data |-> data, pc |-> "parse", ran |-> <<>>, res |-> "none"]

\* A processEvent that does not check parseError.
StepGoroutineNoParseCheck(g, ok) ==
  LET ran == Append(g.ran, g.pc)
  IN  IF g.pc = "parse" THEN [g EXCEPT !.pc = "sign", !.ran = ran]
      ELSE IF ~ok THEN [g EXCEPT !.pc = "done", !.ran = ran, !.res = "nil"]
      ELSE IF g.pc = "push" THEN [g EXCEPT !.pc = "done", !.ran = ran, !.res = "txid"]
      ELSE [g EXCEPT !.pc = Steps[StepNo(g.pc) + 1], !.ran = ran]

\* A processEvent that tries a failed step again.
StepGoroutineRetry(g, ok) ==
  LET ran == Append(g.ran, g.pc)
  IN  IF ~ok THEN [g EXCEPT !.ran = ran]
      ELSE IF g.pc = "push" THEN [g EXCEPT !.pc = "done", !.ran = ran, !.res = "txid"]
      ELSE [g EXCEPT !.pc = Steps[StepNo(g.pc) + 1], !.ran = ran]

\* The goroutine after its current step, which succeeds iff ok.
StepGoroutine(g, ok) ==
  LET ran == Append(g.ran, g.pc)
  IN  IF ~ok THEN [g EXCEPT !.pc = "done", !.ran = ran, !.res = "nil"]
      ELSE IF g.pc = "push" THEN [g EXCEPT !.pc = "done", !.ran = ran, !.res = "txid"]
      ELSE [g EXCEPT !.pc = Steps[StepNo(g.pc) + 1], !.ran = ran]

\* A processEvent that is handed the context and stops once it is cancelled.
StepReadyCtx(g) == g.pc # "done" /\ ~cancelled

\* processEvent takes no context: a goroutine that has not returned goes on.
StepReady(g) == g.pc # "done"

\* json.Unmarshal of the payload succeeds iff it holds a digest; the other
\* steps depend on the key, the chain and the network.
processEvent(k) ==
  /\ Alive
  /\ k \in 1..Len(gor)
  /\ StepReady(gor[k])
  /\ \E ok \in BOOLEAN :
       /\ gor[k].pc = "parse" => ok = (gor[k].data = "ok")
       /\ gor' = [gor EXCEPT ![k] = StepGoroutine(gor[k], ok)]
  /\ UNCHANGED <<cancelled, tasks, loop, chan, closed, left, store, io, reqs>>

(***************************************************************************)
(* The broker client: sends batches on EventMessages once subscribed, and  *)
(* may close the channel.                                                  *)
(***************************************************************************)
Batches(room) ==
  {[offset |-> o, events |-> e] :
     o \in BatchOffsets,
     e \in UNION {[1..n -> Payloads] : n \in 0..room}}

Subscribed == broker.pc = "loop"

Send ==
  /\ Alive /\ Subscribed /\ ~closed
  /\ left > 0
  /\ \E m \in Batches((left - 1) \div 2) :
       /\ left' = left - 1 - 2 * Len(m.events)
       /\ IF Parked
          THEN /\ loop' = [loop EXCEPT !.wake = "recv", !.got = m]
               /\ chan' = chan
          ELSE /\ Len(chan) < MaxQueue
               /\ chan' = Append(chan, m)
               /\ loop' = loop
  /\ UNCHANGED <<cancelled, tasks, closed, gor, store, io, reqs>>

Close ==
  /\ Alive /\ Subscribed /\ ~closed
  /\ closed' = TRUE
  /\ loop' = IF Parked THEN [loop EXCEPT !.wake = "closed"] ELSE loop
  /\ UNCHANGED <<cancelled, tasks, chan, left, gor, store, io, reqs>>

(***************************************************************************)
(* RunEventProcessor.                                                      *)
(***************************************************************************)
\* A loop that breaks out of the select on ctx.Done() instead of returning.
AfterDoneBreak == "idle"

\* Where "case <-ctx.Done()" leaves the loop.
AfterDone == "stopped"

\* Where the break of "if !ok" leaves the loop: out of the select only.
AfterClosed == "idle"

\* Where the break of "if len(eventMessage.Events) == 0" leaves the loop.
AfterEmpty == "idle"

\* The receive case with a batch m in hand: a new iteration's locals.
Received(m) ==
  [loop EXCEPT !.pc = IF Len(m.events) = 0 THEN AfterEmpty ELSE "launch",
               !.wake = "none", !.got = NoBatch,
               !.case = IF Len(m.events) = 0 THEN "empty" ELSE "batch",
               !.nb = loop.nb + 1, !.cur = m, !.i = 1, !.w = 0,
               !.offset = U64Zero, !.err = "nil"]

\* The receive case on the closed channel.
ReceivedClosed == [loop EXCEPT !.pc = AfterClosed, !.wake = "none", !.case = "closed"]

InLoop == Alive /\ broker.pc = "loop"

\* select with no case ready: the goroutine parks.
SelectBlock ==
  /\ InLoop /\ loop.pc = "idle"
  /\ ~cancelled /\ chan = <<>> /\ ~closed
  /\ loop' = [loop EXCEPT !.pc = "blocked", !.wake = "none"]
  /\ UNCHANGED <<cancelled, tasks, chan, closed, left, gor, store, io, reqs>>

\* select takes "case <-ctx.Done()": any ready case may be the one taken.
SelectDone ==
  /\ InLoop /\ loop.pc = "idle"
  /\ cancelled
  /\ loop' = [loop EXCEPT !.pc = AfterDone, !.case = "done"]
  /\ UNCHANGED <<cancelled, tasks, chan, closed, left, gor, store, io, reqs>>

\* select takes the receive case with a batch waiting in the channel.
SelectRecv ==
  /\ InLoop /\ loop.pc = "idle"
  /\ chan # <<>>
  /\ chan' = Tail(chan)
  /\ loop' = Received(Head(chan))
  /\ UNCHANGED <<cancelled, tasks, closed, left, gor, store, io, reqs>>

\* select takes the receive case on the closed, drained channel.
SelectClosed ==
  /\ InLoop /\ loop.pc = "idle"
  /\ chan = <<>> /\ closed
  /\ loop' = ReceivedClosed
  /\ UNCHANGED <<cancelled, tasks, chan, closed, left, gor, store, io, reqs>>

\* The parked goroutine runs again.  After a hand-over it is in the receive
\* case with the batch handed over.  After the close of ctx.Done() or of
\* EventMessages the select takes a case that is ready now: Done when the
\* context is cancelled, the receive of a batch that has come in since, the
\* receive on the closed channel.  wake keeps "done" on a return that follows
\* such a wake-up.
Resume ==
  /\ InLoop /\ loop.pc = "blocked" /\ loop.wake # "none"
  /\ \/ /\ loop.wake = "recv"
        /\ loop' = Received(loop.got)
        /\ chan' = chan
     \/ /\ loop.wake # "recv" /\ cancelled
        /\ loop' = [loop EXCEPT !.pc = AfterDone, !.wake = "done", !.case = "done"]
        /\ chan' = chan
     \/ /\ loop.wake # "recv" /\ chan # <<>>
        /\ loop' = Received(Head(chan))
        /\ chan' = Tail(chan)
     \/ /\ loop.wake # "recv" /\ chan = <<>> /\ closed
        /\ loop' = ReceivedClosed
        /\ chan' = chan
  /\ UNCHANGED <<cancelled, tasks, closed, left, gor, store, io, reqs>>

\* A loop that calls processEvent without go: the next event waits for the
\* one before it to return.
LaunchReadySync == loop.pc = "launch" /\ \A k \in 1..Len(gor) : gor[k].pc = "done"

\* The go statement starts the goroutine and goes on: it waits for nothing.
LaunchReady == loop.pc = "launch"

\* go app.processEvent(event), for the next event of the batch.
Launch ==
  /\ InLoop /\ LaunchReady
  /\ gor' = Append(gor, NewGoroutine(loop.nb, Len(loop.cur.events), loop.i,
                                     loop.cur.events[loop.i]))
  /\ loop' = [loop EXCEPT !.i = loop.i + 1,
                          !.pc = IF loop.i = Len(loop.cur.events) THEN "write" ELSE "launch"]
  /\ UNCHANGED <<cancelled, tasks, chan, closed, left, store, io, reqs>>

\* A loop that waits for the goroutines of the batch before it commits.
WriteReadyAfterAll ==
  loop.pc = "write" /\ \A k \in 1..Len(gor) : gor[k].b = loop.nb => gor[k].pc = "done"

\* The offset write follows the last go statement at once: nothing is
\* waited for.
WriteReady == loop.pc = "write"

\* A loop that returns when the write failed.
AfterWriteStop(err) == IF err = "nil" THEN "idle" ELSE "stopped"

\* Where the loop goes after writeOffset returned err: the error is logged.
AfterWrite(err) == "idle"

\* offset := eventMessage.Offset + 1; writeOffset(app.OffsetHandler, offset):
\* one storage call of writeOffset per step.  When writeOffset returns, the
\* loop has made one more offset write (w) and keeps its value and error;
\* held is what the store held when writeOffset was called.
WriteStep ==
  /\ InLoop /\ WriteReady
  /\ LET offset == Inc(loop.cur.offset)
     IN  \E fail \in BOOLEAN :
           \E n \in IF fail /\ loop.at = "write" THEN PartialWrites(Itoa(IntOf(offset)))
                    ELSE {0} :
             LET w == writeOffset(store, offset, loop.at, fail, n)
             IN  /\ store' = w.store
                 /\ loop' = IF w.at = "return"
                            THEN [loop EXCEPT !.pc = AfterWrite(w.err), !.w = loop.w + 1,
                                              !.offset = offset, !.err = w.err,
                                              !.at = "truncate", !.held = <<>>]
                            ELSE [loop EXCEPT !.at = w.at,
                                              !.held = IF loop.at = "truncate"
                                                       THEN store.content ELSE @]
  /\ UNCHANGED <<cancelled, tasks, chan, closed, left, gor, io, reqs>>

(***************************************************************************)
(* Run: the HTTP goroutine, the broker task and the signal watcher.        *)
(***************************************************************************)
\* graceful.ListenAndServe returns: log.Panic panics and the deferred cancel
\* runs.  The context is cancelled and the rest of the program goes on until
\* the panic ends the process.
HttpPanic ==
  /\ http = "serving"
  /\ http' = "panicking"
  /\ cancelled' = TRUE
  /\ loop' = WakeOnCancel
  /\ UNCHANGED <<blocking, broker, sig, run, chan, closed, left, gor, store, io, reqs>>

\* The panic of the HTTP goroutine ends the process.
HttpExit ==
  /\ http = "panicking"
  /\ http' = "panicked"
  /\ UNCHANGED <<cancelled, blocking, broker, sig, run, loop, chan, closed, left, gor,
                 store, io, reqs>>

\* The broker task returns err: its deferred cancel runs.
BrokerReturns(err) ==
  /\ broker' = [pc |-> "done", err |-> err]
  /\ cancelled' = TRUE

\* BrokerClient.ListenAndServe(ctx) returns at once, with or without error.
Listen ==
  /\ Alive /\ broker.pc = "listen" /\ ~blocking
  /\ \/ BrokerReturns("listen")
     \/ broker' = [broker EXCEPT !.pc = "subscribe"] /\ cancelled' = cancelled
  /\ UNCHANGED <<blocking, http, sig, run, loop, chan, closed, left, gor, store, io, reqs>>

\* BrokerClient.ListenAndServe(ctx) blocks: it returns on a fatal error, or
\* once the context is cancelled.
ListenBlocking ==
  /\ Alive /\ broker.pc = "listen" /\ blocking
  /\ \/ BrokerReturns("listen")
     \/ cancelled /\ broker' = [broker EXCEPT !.pc = "subscribe"] /\ cancelled' = cancelled
  /\ UNCHANGED <<blocking, http, sig, run, loop, chan, closed, left, gor, store, io, reqs>>

\* BrokerClient.Subscribe(topic, offset), then RunEventProcessor starts.
Subscribe ==
  /\ Alive /\ broker.pc = "subscribe"
  /\ \/ BrokerReturns("subscribe") /\ loop' = loop
     \/ /\ broker' = [broker EXCEPT !.pc = "loop"]
        /\ cancelled' = cancelled
        /\ loop' = [loop EXCEPT !.pc = "idle"]
  /\ UNCHANGED <<blocking, http, sig, run, chan, closed, left, gor, store, io, reqs>>

\* RunEventProcessor has returned: the broker task returns nil.
LoopReturned ==
  /\ InLoop /\ loop.pc = "stopped"
  /\ BrokerReturns("nil")
  /\ UNCHANGED <<blocking, http, sig, run, loop, chan, closed, left, gor, store, io, reqs>>

\* SIGINT or SIGTERM arrives at the signal watcher: cancel(), return nil.
Signal ==
  /\ Alive /\ sig = "wait"
  /\ sig' = "done"
  /\ cancelled' = TRUE
  /\ loop' = WakeOnCancel
  /\ UNCHANGED <<blocking, http, broker, run, chan, closed, left, gor, store, io, reqs>>

\* The signal watcher sees ctx.Done(): return nil.
SignalDone ==
  /\ Alive /\ sig = "wait" /\ cancelled
  /\ sig' = "done"
  /\ UNCHANGED <<cancelled, blocking, http, broker, run, loop, chan, closed, left, gor,
                 store, io, reqs>>

\* A Wait that waits for the broker task only.
AwaitedBrokerOnly == broker.pc = "done"

\* The tasks errGroup.Wait waits for.
Awaited == broker.pc = "done" /\ sig = "done"

\* A Run that drops the error of its tasks and returns nil.
RunReturnNil ==
  /\ Alive /\ run.pc = "wait"
  /\ Awaited
  /\ run' = [pc |-> "returned", err |-> "nil"]
  /\ cancelled' = TRUE
  /\ UNCHANGED <<blocking, http, broker, sig, loop, chan, closed, left, gor, store, io, reqs>>

\* errGroup.Wait returns the first error of its tasks; Run returns it.
RunReturn ==
  /\ Alive /\ run.pc = "wait"
  /\ Awaited
  /\ run' = [pc |-> "returned", err |-> broker.err]
  /\ cancelled' = TRUE
  /\ UNCHANGED <<blocking, http, broker, sig, loop, chan, closed, left, gor, store, io, reqs>>

\* The event pipeline: the loop, its goroutines, the broker's sends and the
\* signal that cancels the context.
Next ==
  \/ Send
  \/ Close
  \/ SelectBlock
  \/ SelectDone
  \/ SelectRecv
  \/ SelectClosed
  \/ Resume
  \/ Launch
  \/ WriteStep
  \/ \E k \in 1..MaxTraffic : processEvent(k)
  \/ Signal

Spec == Init /\ [][Next]_vars

\* The whole of Run.
NextRun ==
  \/ Next
  \/ HttpPanic
  \/ HttpExit
  \/ Listen
  \/ ListenBlocking
  \/ Subscribe
  \/ LoopReturned
  \/ SignalDone
  \/ RunReturn

RunSpec == InitRun /\ [][NextRun]_vars

\* Run under the Go scheduler: a goroutine that can run does run, so the
\* signal watcher sees the closed ctx.Done() and errGroup.Wait returns once
\* its tasks have.
FairRunSpec == RunSpec /\ WF_vars(SignalDone) /\ WF_vars(RunReturn)

(***************************************************************************)
(* The offset store on its own: a caller that writes offsets, reads them   *)
(* back and rewinds the handle, in any order.                              *)
(***************************************************************************)
\* Offsets handed to WriteOffset: 0, 5, 42, 2^63 - 1, 2^63 and 2^64 - 1.
StoreOffsets ==
  {U64Zero, U64Of(5), U64Of(42), <<Limb \div 2 - 1, Limb - 1, Limb - 1, Limb - 1>>,
   TwoTo63, MaxU64}

\* Bytes the offset file can hold when it is opened.
StoreContents ==
  {<<>>, <<"0">>, <<"4", "2">>, <<"0", "4", "2">>, <<"0", "x", "1", "0">>, <<"C2", "A0", "7">>}

InitStore ==
  /\ cancelled = FALSE
  /\ blocking = FALSE
  /\ http = "serving"
  /\ broker = [pc |-> "listen", err |-> "nil"]
  /\ sig = "wait"
  /\ run = [pc |-> "wait", err |-> "nil"]
  /\ loop = NewLoop
  /\ chan = <<>>
  /\ closed = FALSE
  /\ left = 0
  /\ gor = <<>>
  /\ store \in {NewStore(c) : c \in StoreContents}
  /\ io = NoIO
  /\ reqs = <<>>

\* WriteOffset(store, v).
IOWrite ==
  /\ \E v \in StoreOffsets, fail \in WriteFails :
       \E n \in IF fail = "write" THEN PartialWrites(Itoa(IntOf(v))) ELSE {0} :
         LET w == WriteOffset(store, v, fail, n)
         IN  /\ store' = w.store
             /\ io' = [NoIO EXCEPT !.pc = "wrote", !.v = v, !.werr = w.err]
  /\ UNCHANGED <<cancelled, tasks, loop, chan, closed, left, gor, reqs>>

\* ReadOffset(store), on the same handle.
IORead ==
  /\ LET r == ReadOffset(store)
     IN  /\ store' = r.store
         /\ io' = [io EXCEPT !.pc = IF io.pc = "wrote" /\ io.werr = "nil"
                                    THEN "readback" ELSE "read",
                             !.offset = r.offset, !.err = r.err]
  /\ UNCHANGED <<cancelled, tasks, loop, chan, closed, left, gor, reqs>>

\* The caller rewinds the handle: Seek(0, 0).
IOSeek ==
  /\ store.pos # 0
  /\ store' = Seek(store)
  /\ io' = [io EXCEPT !.pc = "rewound"]
  /\ UNCHANGED <<cancelled, tasks, loop, chan, closed, left, gor, reqs>>

NextStore == IOWrite \/ IORead \/ IOSeek

StoreSpec == InitStore /\ [][NextStore]_vars

(***************************************************************************)
(* The HTTP API: GetRouter sends GET /ping to PingQuery and                *)
(* POST /sign_transaction to SignQuery.  Each request is served by its own *)
(* goroutine of the HTTP server; a handler keeps no state of the App.      *)
(***************************************************************************)
Routes == {"/ping", "/sign_transaction"}

\* Request bodies: a transaction in JSON, and bytes that are not valid JSON.
Bodies == {"tx", "bad"}

\* pc is where the handler of the request stands; out is the response that
\* respondWithJSON has made ready and not yet written.
NoResponse == [code |-> 0, key |-> "none"]

NewRequest(route, body) ==
  [route |-> route, body |-> body, pc |-> "routed", signs |-> 0, pushes |-> 0,
   out |-> NoResponse, resp |-> <<>>]

\* respondWithJSON up to writer.Write: the payload {key: ...} is marshalled
\* and the header and the status code are set.
respondWithJSON(r, code, key) ==
  [r EXCEPT !.pc = "write", !.out = [code |-> code, key |-> key]]

respondWithError(r, code) == respondWithJSON(r, code, "error")

\* writer.Write(response) of respondWithJSON: sent tells whether the body got
\* out (a failure is only logged); the handler returns.
WriteResponse(r, sent) ==
  [r EXCEPT !.pc = "done", !.out = NoResponse,
            !.resp = Append(@, [code |-> r.out.code, key |-> r.out.key, sent |-> sent])]

\* A SignQuery that goes on to sign and push after the failed Unmarshal.
SignQueryNoParseCheck(r, ok) ==
  IF r.pc = "routed" THEN [r EXCEPT !.pc = "sign"]
  ELSE IF r.pc = "sign"
  THEN IF ok THEN [r EXCEPT !.pc = "push", !.signs = 1]
       ELSE respondWithError([r EXCEPT !.signs = 1], 500)
  ELSE IF ok THEN respondWithJSON([r EXCEPT !.pushes = 1], 200, "txid")
       ELSE respondWithError([r EXCEPT !.pushes = 1], 400)

\* SignQuery on request r, one blocking call per step: ReadAll of the body
\* with json.Unmarshal (it succeeds iff the body is a transaction), then
\* Signer.Sign, then PushTransaction; ok is the outcome of the call.
SignQuery(r, ok) ==
  IF r.pc = "routed"
  THEN IF r.body # "tx" THEN respondWithError(r, 400) ELSE [r EXCEPT !.pc = "sign"]
  ELSE IF r.pc = "sign"
  THEN IF ok THEN [r EXCEPT !.pc = "push", !.signs = 1]
       ELSE respondWithError([r EXCEPT !.signs = 1], 500)
  ELSE IF ok THEN respondWithJSON([r EXCEPT !.pushes = 1], 200, "txid")
       ELSE respondWithError([r EXCEPT !.pushes = 1], 400)

PingQuery(r) == respondWithJSON(r, 200, "result")

\* A client's request reaches the router.
Route ==
  /\ Alive
  /\ Len(reqs) < MaxRequests
  /\ \E route \in Routes, body \in Bodies :
       reqs' = Append(reqs, NewRequest(route, body))
  /\ UNCHANGED <<cancelled, tasks, loop, chan, closed, left, gor, store, io>>

\* The handler of request k makes its next call.
Handle(k) ==
  /\ Alive
  /\ k \in 1..Len(reqs)
  /\ reqs[k].pc # "done"
  /\ \E ok, sent \in BOOLEAN :
       reqs' = [reqs EXCEPT ![k] =
                  IF reqs[k].pc = "write" THEN WriteResponse(reqs[k], sent)
                  ELSE IF reqs[k].route = "/ping" THEN PingQuery(reqs[k])
                  ELSE SignQuery(reqs[k], ok)]
  /\ UNCHANGED <<cancelled, tasks, loop, chan, closed, left, gor, store, io>>

NextHttp == Route \/ \E k \in 1..MaxRequests : Handle(k)

\* The HTTP server of a running App, on its own.
HttpSpec == Init /\ [][NextHttp]_vars

(***************************************************************************)
(* Properties.                                                             *)
(***************************************************************************)
\* The loop is between batches: the batch in loop.cur has been dealt with.
BatchDone == loop.nb >= 1 /\ loop.pc \in {"idle", "blocked", "stopped"}

\* The goroutines launched for the b-th batch.
GoroutinesOf(b) == {k \in 1..Len(gor) : gor[k].b = b}

\* Every event of the batch in loop.cur has its goroutine.
AllLaunched ==
  \A i \in 1..Len(loop.cur.events) :
    \E k \in GoroutinesOf(loop.nb) : gor[k].i = i /\ gor[k].data = loop.cur.events[i]

\* The PushTransaction attempts made for the b-th batch.
PushAttempts(b) ==
  {<<k, j>> \in (1..Len(gor)) \X (1..5) :
     gor[k].b = b /\ j <= Len(gor[k].ran) /\ gor[k].ran[j] = "push"}

\* The bytes are an unsigned decimal number.
IsUnsigned(bytes) == bytes # <<>> /\ \A j \in 1..Len(bytes) : IsDigit(bytes[j])

\* C1: after a batch with zero events and offset k the offset
\* store has been written with k + 1, and no processEvent was launched.
C1_EmptyBatchWritesOffset ==
  loop.case = "empty" =>
    /\ loop.w = 1 /\ loop.offset = Inc(loop.cur.offset)
    /\ GoroutinesOf(loop.nb) = {}

\* C2: once the receive case has seen the closed channel, RunEventProcessor
\* has returned.
C2_ClosedStops == loop.case = "closed" => loop.pc = "stopped"

\* C3 (as stated): with the context cancelled while the loop is idle, before
\* it has taken any batch, the loop takes no batch afterwards.
C3_NoBatchAfterCancel ==
  [][(cancelled /\ loop.pc \in {"idle", "blocked"} /\ loop.nb = 0) => loop'.nb = 0]_vars

\* C3 (amended): once the context is cancelled the loop is never parked in
\* its select; with the context cancelled, the channel open and empty and no
\* batch handed over, the only step the loop can take is to return, taking
\* no batch; the loop returns only through the Done case of a cancelled
\* context, and the broker task then returns nil.
C3_CancelledIdleStops ==
  /\ [](cancelled => ~Parked)
  /\ [][(/\ cancelled /\ ~closed /\ chan = <<>>
         /\ loop.pc \in {"idle", "blocked"} /\ loop.wake # "recv"
         /\ loop' # loop) =>
          (loop'.pc = "stopped" /\ loop'.nb = loop.nb /\ gor' = gor /\ store' = store)]_vars
  /\ [](loop.pc = "stopped" =>
          /\ cancelled /\ loop.case = "done"
          /\ broker.pc = "done" => broker.err = "nil")

\* The cancellation found the loop parked; woken by it, the loop has
\* returned with no batch taken and the broker task has returned nil.
C3_Witness ==
  /\ loop.pc = "stopped" /\ loop.wake = "done" /\ loop.case = "done"
  /\ loop.nb = 0 /\ gor = <<>>
  /\ broker.pc = "done" /\ broker.err = "nil"

\* C4: ReadOffset right after a successful WriteOffset(v) on the same handle
\* returns v and no error.
C4_RoundTrip == io.pc = "readback" => (io.err = "nil" /\ io.offset = io.v)

\* C5: every batch the loop has dealt with got exactly one offset
\* write, of batch.offset + 1, and at most N PushTransaction attempts.
C5_OneWriteEveryBatch ==
  /\ \A k \in 1..Len(gor) : Cardinality(PushAttempts(gor[k].b)) <= gor[k].n
  /\ BatchDone => (loop.w = 1 /\ loop.offset = Inc(loop.cur.offset))

\* C6: an event whose payload does not parse is dropped at the parse step,
\* with no transaction id and no chain call; the other events of its batch
\* are all launched and the batch's offset write is of batch.offset + 1.
C6_BadPayloadDropped ==
  /\ \A k \in 1..Len(gor) :
       gor[k].data = "bad" =>
         /\ gor[k].pc \in {"parse", "done"}
         /\ gor[k].pc = "done" => (gor[k].ran = <<"parse">> /\ gor[k].res = "nil")
  /\ (BatchDone /\ \E i \in 1..Len(loop.cur.events) : loop.cur.events[i] = "bad") =>
       (AllLaunched /\ loop.w = 1 /\ loop.offset = Inc(loop.cur.offset))

C6_Witness ==
  /\ BatchDone /\ loop.err = "nil"
  /\ store.content = Itoa(IntOf(Inc(loop.cur.offset)))
  /\ \E k, j \in GoroutinesOf(loop.nb) :
       /\ gor[k].data = "bad" /\ gor[k].pc = "done"
       /\ gor[j].data = "ok" /\ gor[j].res = "txid"

\* C7: every successful offset write stores an unsigned decimal number that
\* is not smaller than the number the store held before.
C7_Monotonic ==
  [][(loop'.w = loop.w + 1 /\ loop'.err = "nil") =>
       /\ IsUnsigned(store'.content)
       /\ IsUnsigned(loop.held) =>
            U64Leq(ParseUint(loop.held).v, ParseUint(store'.content).v)]_vars

\* C8 (as stated): Run returns only after the HTTP server, the broker task
\* and the signal watcher have all stopped on the cancellation.
C8_AllTasksStopped ==
  run.pc = "returned" => (http # "serving" /\ broker.pc = "done" /\ sig = "done")

\* C8 (amended): Run returns only after the broker task (with its event
\* loop) and the signal watcher have returned, the HTTP goroutine not being
\* waited for; it returns the error of ListenAndServe or Subscribe if one of
\* them failed, and nil otherwise.
C8_RunWaitsForGroup ==
  run.pc = "returned" =>
    /\ broker.pc = "done" /\ sig = "done" /\ cancelled
    /\ loop.pc \in {"none", "stopped"}
    /\ run.err = broker.err
    /\ run.err = "nil" <=> loop.pc = "stopped"

C8_Witness ==
  /\ run.pc = "returned" /\ run.err = "nil" /\ http = "serving"
  /\ loop.pc = "stopped" /\ loop.nb = 1

\* C9: whatever the goroutines are doing, the loop's next step is never held
\* up: it can launch the next event, write the offset, and take the next
\* batch.
C9_LoopNeverWaits ==
  /\ loop.pc = "launch" => ENABLED Launch
  /\ loop.pc = "write" => ENABLED WriteStep
  /\ (loop.pc = "idle" /\ chan # <<>>) => ENABLED SelectRecv

C9_Witness ==
  /\ loop.nb = 2 /\ loop.pc = "idle" /\ loop.w = 1
  /\ \E k \in GoroutinesOf(1) : gor[k].pc = "fetch"
  /\ \E k \in GoroutinesOf(2) : gor[k].res = "txid"

\* C10: after a failed offset write the loop is back at its select, not
\* stopped by the failure, the error has gone nowhere, and a waiting batch
\* can be taken.
C10_WriteErrorLogged ==
  loop.err # "nil" =>
    /\ loop.w = 1
    /\ loop.pc \in {"idle", "blocked", "stopped"}
    /\ loop.pc = "stopped" => (cancelled /\ loop.case = "done")
    /\ broker.err = "nil" /\ run.err = "nil"
    /\ (loop.pc = "idle" /\ chan # <<>>) => ENABLED SelectRecv

C10_Witness ==
  /\ loop.nb = 2 /\ loop.pc = "write" /\ loop.at = "truncate" /\ AllLaunched
  /\ store.content = <<>>
  /\ GoroutinesOf(1) # {}

\* C11: a WriteOffset call leaves the store holding either the bytes it held
\* before or the bytes of the new offset, and the bytes it held before when
\* it returns an error.
C11_AtomicWrite ==
  [][io'.pc = "wrote" =>
       /\ store'.content \in {store.content, Itoa(IntOf(io'.v))}
       /\ io'.werr # "nil" => store'.content = store.content]_vars

\* C12: after a successful WriteOffset(v) the store's content is exactly the
\* decimal representation of v, whatever it held before.
C12_NoStaleBytes ==
  (io.pc = "wrote" /\ io.werr = "nil") => store.content = FormatUint(io.v)

\* C20: the bytes a successful WriteOffset(v) stores are an unsigned decimal
\* number, without a sign, whose value is v, for v up to 2^64 - 1.
C20_UnsignedDecimal ==
  (io.pc = "wrote" /\ io.werr = "nil") =>
    /\ IsUnsigned(store.content)
    /\ ParseUint(store.content) = [v |-> io.v, err |-> "nil"]

\* C13: once ListenAndServe or Subscribe of the broker has returned an
\* error, the context is cancelled, RunEventProcessor is never started and
\* no batch is consumed or event launched; the signal watcher stops and Run
\* returns that error (unless the HTTP goroutine's panic ends the process
\* first).
C13_BrokerErrorStopsRun ==
  /\ [](broker.err # "nil" =>
          /\ cancelled /\ broker.pc = "done"
          /\ loop = NewLoop /\ gor = <<>>
          /\ run.pc = "returned" => (run.err = broker.err /\ sig = "done"))
  /\ (broker.err # "nil") ~>
       ((run.pc = "returned" /\ run.err = broker.err /\ sig = "done") \/ http = "panicked")

C13_Witness ==
  /\ run.pc = "returned" /\ run.err = "subscribe" /\ sig = "done"
  /\ cancelled /\ loop = NewLoop /\ http = "serving"

\* C14: a POST /sign_transaction whose body is not valid JSON gets exactly
\* one response, 400 with an error field, and its handler calls neither the
\* signer nor PushTransaction.
C14_BadJSONRejected ==
  \A k \in 1..Len(reqs) :
    (reqs[k].route = "/sign_transaction" /\ reqs[k].body = "bad") =>
      /\ reqs[k].signs = 0 /\ reqs[k].pushes = 0
      /\ Len(reqs[k].resp) <= 1
      /\ reqs[k].pc = "done" =>
           /\ Len(reqs[k].resp) = 1
           /\ reqs[k].resp[1].code = 400 /\ reqs[k].resp[1].key = "error"

C14_Witness ==
  \E k, j \in 1..Len(reqs) :
    /\ reqs[k].route = "/sign_transaction" /\ reqs[k].body = "bad"
    /\ reqs[k].pc = "done" /\ reqs[k].resp[1].sent
    /\ reqs[j].route = "/sign_transaction" /\ reqs[j].pushes = 1

\* C15: with a ListenAndServe that blocks until the context is cancelled,
\* Subscribe is issued while the context is still live.
C15_SubscribesWhileLive ==
  [][(blocking /\ broker.pc = "subscribe" /\ broker'.pc # "subscribe") => ~cancelled]_vars

\* C16: the offset write does not wait for the events of its batch: with a
\* goroutine of the batch unfinished the write can be made, and after a
\* successful write the store holds batch.offset + 1 whatever the
\* goroutines of the batch have reached.
C16_CommitBeforeCompletion ==
  /\ \A k \in GoroutinesOf(loop.nb) :
       (loop.pc = "write" /\ gor[k].pc # "done") => ENABLED WriteStep
  /\ (BatchDone /\ loop.w = 1 /\ loop.err = "nil") =>
       store.content = Itoa(IntOf(Inc(loop.cur.offset)))

C16_Witness ==
  /\ BatchDone /\ loop.w = 1 /\ loop.err = "nil"
  /\ loop.cur.offset = U64Of(5) /\ store.content = <<"6">>
  /\ \E k \in GoroutinesOf(loop.nb) : gor[k].pc = "parse"
  /\ \E k \in GoroutinesOf(loop.nb) : gor[k].pc = "done" /\ gor[k].res = "nil"

\* C17: the loop takes the batches in the order they were enqueued, and by
\* the time it takes batch N+1 every event of batch N has been launched and
\* the offset write for batch N has been attempted; events are launched for
\* the batch in hand only.
C17_OneBatchAtATime ==
  [][/\ loop'.nb = loop.nb + 1 =>
          /\ loop'.cur = IF loop.pc = "blocked" THEN loop.got ELSE Head(chan)
          /\ loop.nb >= 1 => (AllLaunched /\ loop.w = 1)
     /\ Len(gor') > Len(gor) =>
          /\ loop'.nb = loop.nb
          /\ \E g \in {NewGoroutine(loop.nb, Len(loop.cur.events), loop.i,
                                    loop.cur.events[loop.i])} :
               gor' = Append(gor, g)]_vars

\* C18: with the context cancelled, also once RunEventProcessor has
\* returned, every processEvent that has not returned can take its next
\* step, and one that has returned has its own outcome.
C18_InFlightNotCancelled ==
  cancelled =>
    \A k \in 1..Len(gor) :
      /\ gor[k].pc # "done" => ENABLED processEvent(k)
      /\ gor[k].pc = "done" <=> gor[k].res \in {"nil", "txid"}

C18_Witness ==
  /\ cancelled /\ loop.pc = "stopped"
  /\ \E k \in 1..Len(gor) : gor[k].pc = "push"
  /\ \E k \in 1..Len(gor) : gor[k].res = "txid"

\* C19: the steps a processEvent has run are an initial part of parse, sign,
\* fetch, build, push, each once; one that has not returned is at the step
\* after those; a transaction id comes only from a run of all five steps;
\* and once it has returned, with nil or an id, it runs nothing more.
C19_StepsInOrder ==
  /\ [](\A k \in 1..Len(gor) :
          /\ gor[k].ran = SubSeq(Steps, 1, Len(gor[k].ran))
          /\ gor[k].pc # "done" =>
               (gor[k].res = "none" /\ gor[k].pc = Steps[Len(gor[k].ran) + 1])
          /\ gor[k].pc = "done" => (gor[k].res \in {"nil", "txid"} /\ gor[k].ran # <<>>)
          /\ gor[k].res = "txid" => gor[k].ran = Steps)
  /\ [][\A k \in 1..Len(gor) : gor[k].pc = "done" => gor'[k] = gor[k]]_vars

C19_Witness ==
  /\ \E k \in 1..Len(gor) :
       gor[k].pc = "done" /\ gor[k].res = "nil" /\ gor[k].ran = <<"parse", "sign", "fetch">>
  /\ \E k \in 1..Len(gor) : gor[k].res = "txid"

=============================================================================
